---- MODULE Spec2Model ----
(***************************************************************************)
(* Model of magic_words/forward_reach.py: the answer computation primitive *)
(* _get_answer_ids, the sub-batched scoring _batch_get_answer_ids, the     *)
(* single-state reachability search get_reachable_set and the batch driver *)
(* forward_generate.                                                       *)
(*                                                                         *)
(* The language model is an arbitrary function from a token-id sequence to *)
(* the argmax token id at its last position.  Its value on an input is     *)
(* chosen when that input is first passed through it and remembered in     *)
(* `model`, so every behaviour is a run against one fixed function.        *)
(* Decoded strings and the two cross-entropy losses are not modelled.      *)
(***************************************************************************)
EXTENDS Integers, Sequences, FiniteSets, TLC

\* ---------------------------------------------------------------- bounds
MaxId == 1          \* the model's logits cover the ids 0..MaxId
MaxVocab == 2       \* tokenizer.vocab_size ranges over 0..MaxVocab
MaxRows == 2        \* rows of unique_states
MaxBatch == 3       \* rows of prompt_ids / question_ids in the batched calls
MaxParallel == 2    \* max_parallel ranges over 1..MaxParallel and the default

\* ------------------------------------------------------ program constants
DefaultMaxPromptTokens == 10
DefaultMaxParallel == 300

AnswerIds == 0..MaxId

\* question token sequences given to get_reachable_set / forward_generate
QuestionPool == { <<0>>, <<1, 0>> }
\* question rows of one tensor have one length
BatchQuestionPool == { <<0>>, <<1>> }
PromptRows == { <<t>> : t \in AnswerIds }

\* a cell of the question_ids column: a list of token ids, or the same ids
\* serialized as a string
ListCell(q) == [type |-> "list", ids |-> q]
StrCell(q) == [type |-> "str", ids |-> q]
Cells == { ListCell(q) : q \in QuestionPool } \cup { StrCell(<<0>>) }

SeqsUpTo(S, n) == UNION { [1..m -> S] : m \in 0..n }

VARIABLES
    entry,              \* the function the caller invoked
    pc,                 \* position in the code
    outcome,            \* "none", "returned", or the condition that aborted the run
    vocab_size,         \* tokenizer.vocab_size
    model,              \* top-1 id of the model on every input evaluated so far
    passes,             \* the batches passed through the model, in order
    unique_states,      \* forward_generate: the question_ids column
    max_prompt_tokens,
    row,                \* forward_generate: rows fully processed
    fg_reachable_df,    \* forward_generate: reachable_df
    x_0,                \* get_reachable_set: the question
    i,                  \* get_reachable_set: next candidate prompt id
    base_answer_ids,
    reachable_df,       \* get_reachable_set: reachable_df
    reachable_sets,     \* the tables get_reachable_set has returned, in order
    prompt_ids,
    question_ids,
    max_parallel,
    batch_i,            \* _batch_get_answer_ids: loop index
    chunks,             \* _batch_get_answer_ids: <<batch_start, batch_end>> of each iteration
    answer_ids          \* the [batch, 1] tensor of predictions

vars == << entry, pc, outcome, vocab_size, model, passes, unique_states,
           max_prompt_tokens, row, fg_reachable_df, x_0, i, base_answer_ids,
           reachable_df, reachable_sets, prompt_ids, question_ids, max_parallel,
           batch_i, chunks, answer_ids >>

searchVars == << unique_states, max_prompt_tokens, row, fg_reachable_df, x_0, i,
                 base_answer_ids, reachable_df, reachable_sets, vocab_size >>
batchVars == << prompt_ids, question_ids, max_parallel, batch_i, chunks, answer_ids >>

\* ------------------------------------------------------------- the model
Min(a, b) == IF a < b THEN a ELSE b

\* model(input_ids).logits[:, -1, :].argmax(-1): `out` is an admissible result
\* for the batch `rows` of a function that agrees with everything seen so far
Top1Consistent(rows, out) ==
    /\ \A r \in 1..Len(rows) : rows[r] \in DOMAIN model => out[r] = model[rows[r]]
    /\ \A r, s \in 1..Len(rows) : rows[r] = rows[s] => out[r] = out[s]

Forward(rows, out) ==
    /\ Top1Consistent(rows, out)
    /\ model' = [ s \in DOMAIN model \cup { rows[r] : r \in 1..Len(rows) } |->
                    IF s \in DOMAIN model THEN model[s]
                    ELSE out[CHOOSE r \in 1..Len(rows) : rows[r] = s] ]
    /\ passes' = Append(passes, rows)

Outputs(rows) == [1..Len(rows) -> AnswerIds]

\* ------------------------------------------------------- _get_answer_ids
BroadcastQuestionNoRepeat(p, q) == q

BroadcastQuestion(p, q) ==
    IF Len(q) = 1 /\ Len(p) > 1 THEN [r \in 1..Len(p) |-> q[1]] ELSE q

BatchMatches(p, q) == Len(p) = Len(q)

InputIds(p, q) == [r \in 1..Len(p) |-> p[r] \o q[r]]

\* ------------------------------------------------- _batch_get_answer_ids
NumBatchesFloor(batch, mp) == batch \div mp

NumBatches(batch, mp) == (batch + mp - 1) \div mp

BatchStart(b, mp) == b * mp

BatchEnd(b, mp, batch) == Min((b + 1) * mp, batch)

\* s[a:b] and s[a:b] = vals, with the slice clamped to the length of s
Slice(s, a, b) == SubSeq(s, Min(a, Len(s)) + 1, Min(b, Len(s)))

SliceAssign(s, a, b, vals) ==
    [r \in 1..Len(s) |-> IF a < r /\ r <= b THEN vals[r - a] ELSE s[r]]

Zeros(n) == [r \in 1..n |-> 0]

\* ----------------------------------------------------- get_reachable_set
MaxPromptTokensAtLeastOne(m) == m >= 1

MaxPromptTokensOK(m) == m = 1

CandidateCountShort(v) == IF v > 0 THEN v - 1 ELSE 0

CandidateCount(v) == v

ColumnAnswerIds(df) == { df[r].answer_ids : r \in 1..Len(df) }

IsNewAlways(a, df) == TRUE

IsNew(a, df) == a \notin ColumnAnswerIds(df)

BaseCorrectNever(base, a) == FALSE

BaseCorrect(base, a) == base = a

NewRow(q, a, base) ==
    [ question_ids |-> q,
      answer_ids |-> a,
      search_method |-> "forward",
      prompt_length |-> 1,
      base_correct |-> BaseCorrect(base, a),
      prompt_correct |-> TRUE,
      question_length |-> Len(q) ]

PrependRow(df, new_row) == <<new_row>> \o df

AppendRow(df, new_row) == IF Len(df) = 0 THEN <<new_row>> ELSE df \o <<new_row>>

\* ------------------------------------------------------ forward_generate
IsListOrStr(cell) == TRUE

IsList(cell) == cell.type = "list"

ConcatDropSeen(df, new) ==
    df \o SelectSeq(new, LAMBDA r : r.answer_ids \notin ColumnAnswerIds(df))

ConcatTables(df, new) == df \o new

\* ------------------------------------------------------------------ Init
InitSearch ==
    /\ vocab_size \in 0..MaxVocab
    /\ max_prompt_tokens \in {1, 2, DefaultMaxPromptTokens}
    /\ \/ /\ entry = "forward_generate"
          /\ pc = "fg_loop"
          /\ unique_states \in SeqsUpTo(Cells, MaxRows)
          /\ x_0 = <<>>
       \/ /\ entry = "get_reachable_set"
          /\ pc = "grs_assert"
          /\ unique_states = <<>>
          /\ x_0 \in QuestionPool
    /\ prompt_ids = <<>>
    /\ question_ids = <<>>
    /\ max_parallel = DefaultMaxParallel

\* A call with no prompt row and no question row is left out: what the model
\* does with an empty batch is decided upstream, not in this file.
InitBatch ==
    /\ prompt_ids \in SeqsUpTo(PromptRows, MaxBatch)
    /\ question_ids \in SeqsUpTo(BatchQuestionPool, MaxBatch)
    /\ Len(prompt_ids) + Len(question_ids) > 0
    /\ \/ /\ entry = "_get_answer_ids"
          /\ pc = "gai"
          /\ max_parallel = DefaultMaxParallel
       \/ /\ entry = "_batch_get_answer_ids"
          /\ pc = "batch_start"
          /\ max_parallel \in (1..MaxParallel) \cup {DefaultMaxParallel}
    /\ vocab_size = 0
    /\ max_prompt_tokens = DefaultMaxPromptTokens
    /\ unique_states = <<>>
    /\ x_0 = <<>>

Init ==
    /\ InitSearch \/ InitBatch
    /\ outcome = "none"
    /\ model = [s \in {} |-> 0]
    /\ passes = <<>>
    /\ row = 0
    /\ fg_reachable_df = <<>>
    /\ i = 0
    /\ base_answer_ids = 0
    /\ reachable_df = <<>>
    /\ reachable_sets = <<>>
    /\ batch_i = 0
    /\ chunks = <<>>
    /\ answer_ids = <<>>

\* --------------------------------------------------------------- actions
Fail(condition) ==
    /\ pc' = "failed"
    /\ outcome' = condition

\* forward_generate, lines 186-194: take the next row, check its type, call
fg_next ==
    /\ pc = "fg_loop"
    /\ row < Len(unique_states)
    /\ IF IsList(unique_states[row + 1])
       THEN /\ x_0' = unique_states[row + 1].ids
            /\ pc' = "grs_assert"
            /\ UNCHANGED outcome
       ELSE /\ Fail("TypeAssertion")
            /\ UNCHANGED x_0
    /\ UNCHANGED << entry, vocab_size, model, passes, unique_states, max_prompt_tokens,
                    row, fg_reachable_df, i, base_answer_ids, reachable_df,
                    reachable_sets >>
    /\ UNCHANGED batchVars

\* forward_generate, line 199
fg_concat ==
    /\ pc = "fg_concat"
    /\ fg_reachable_df' = ConcatTables(fg_reachable_df, reachable_sets[Len(reachable_sets)])
    /\ row' = row + 1
    /\ pc' = "fg_loop"
    /\ UNCHANGED << entry, outcome, vocab_size, model, passes, unique_states,
                    max_prompt_tokens, x_0, i, base_answer_ids, reachable_df,
                    reachable_sets >>
    /\ UNCHANGED batchVars

\* forward_generate, line 201
fg_return ==
    /\ pc = "fg_loop"
    /\ row = Len(unique_states)
    /\ pc' = "done"
    /\ outcome' = "returned"
    /\ UNCHANGED << entry, vocab_size, model, passes >>
    /\ UNCHANGED searchVars
    /\ UNCHANGED batchVars

\* get_reachable_set, lines 81-93
grs_assert ==
    /\ pc = "grs_assert"
    /\ IF MaxPromptTokensOK(max_prompt_tokens)
       THEN /\ reachable_df' = <<>>
            /\ pc' = "grs_base"
            /\ UNCHANGED outcome
       ELSE /\ Fail("NotImplemented")
            /\ UNCHANGED reachable_df
    /\ UNCHANGED << entry, vocab_size, model, passes, unique_states, max_prompt_tokens,
                    row, fg_reachable_df, x_0, i, base_answer_ids, reachable_sets >>
    /\ UNCHANGED batchVars

\* get_reachable_set, lines 96-103
grs_base ==
    /\ pc = "grs_base"
    /\ \E out \in Outputs(<<x_0>>) :
          /\ Forward(<<x_0>>, out)
          /\ base_answer_ids' = out[1]
    /\ i' = 0
    /\ pc' = "grs_loop"
    /\ UNCHANGED << entry, outcome, vocab_size, unique_states, max_prompt_tokens, row,
                    fg_reachable_df, x_0, reachable_df, reachable_sets >>
    /\ UNCHANGED batchVars

\* get_reachable_set, lines 104-153: one iteration of the scan
grs_iter ==
    /\ pc = "grs_loop"
    /\ i < CandidateCount(vocab_size)
    /\ \E out \in Outputs(<< <<i>> \o x_0 >>) :
          /\ Forward(<< <<i>> \o x_0 >>, out)
          /\ reachable_df' =
                IF IsNew(out[1], reachable_df)
                THEN AppendRow(reachable_df, NewRow(x_0, out[1], base_answer_ids))
                ELSE reachable_df
    /\ i' = i + 1
    /\ UNCHANGED << entry, pc, outcome, vocab_size, unique_states, max_prompt_tokens,
                    row, fg_reachable_df, x_0, base_answer_ids, reachable_sets >>
    /\ UNCHANGED batchVars

\* get_reachable_set, line 155
grs_return ==
    /\ pc = "grs_loop"
    /\ i >= CandidateCount(vocab_size)
    /\ reachable_sets' = Append(reachable_sets, reachable_df)
    /\ IF entry = "forward_generate"
       THEN /\ pc' = "fg_concat"
            /\ UNCHANGED outcome
       ELSE /\ pc' = "done"
            /\ outcome' = "returned"
    /\ UNCHANGED << entry, vocab_size, model, passes, unique_states, max_prompt_tokens,
                    row, fg_reachable_df, x_0, i, base_answer_ids, reachable_df >>
    /\ UNCHANGED batchVars

\* _get_answer_ids, lines 31-47, called by the caller
get_answer_ids ==
    /\ pc = "gai"
    /\ LET q == BroadcastQuestion(prompt_ids, question_ids) IN
       IF BatchMatches(prompt_ids, q)
       THEN /\ \E out \in Outputs(prompt_ids) :
                  /\ Forward(InputIds(prompt_ids, q), out)
                  /\ answer_ids' = out
            /\ pc' = "done"
            /\ outcome' = "returned"
       ELSE /\ Fail("BatchMismatch")
            /\ UNCHANGED << model, passes, answer_ids >>
    /\ UNCHANGED << entry, prompt_ids, question_ids, max_parallel, batch_i, chunks >>
    /\ UNCHANGED searchVars

\* _batch_get_answer_ids, lines 52-58
batch_start ==
    /\ pc = "batch_start"
    /\ answer_ids' = Zeros(Len(prompt_ids))
    /\ batch_i' = 0
    /\ pc' = "batch_loop"
    /\ UNCHANGED << entry, outcome, model, passes, prompt_ids, question_ids,
                    max_parallel, chunks >>
    /\ UNCHANGED searchVars

\* _batch_get_answer_ids, lines 61-72: one chunk, through _get_answer_ids
batch_iter ==
    /\ pc = "batch_loop"
    /\ batch_i < NumBatches(Len(prompt_ids), max_parallel)
    /\ LET batch_start_ == BatchStart(batch_i, max_parallel)
           batch_end == BatchEnd(batch_i, max_parallel, Len(prompt_ids))
           prompt_ids_batch == Slice(prompt_ids, batch_start_, batch_end)
           q == BroadcastQuestion(prompt_ids_batch, question_ids)
       IN  IF BatchMatches(prompt_ids_batch, q)
           THEN /\ \E out \in Outputs(prompt_ids_batch) :
                      /\ Forward(InputIds(prompt_ids_batch, q), out)
                      /\ answer_ids' = SliceAssign(answer_ids, batch_start_, batch_end, out)
                /\ chunks' = Append(chunks, <<batch_start_, batch_end>>)
                /\ batch_i' = batch_i + 1
                /\ UNCHANGED << pc, outcome >>
           ELSE /\ Fail("BatchMismatch")
                /\ UNCHANGED << model, passes, answer_ids, chunks, batch_i >>
    /\ UNCHANGED << entry, prompt_ids, question_ids, max_parallel >>
    /\ UNCHANGED searchVars

\* _batch_get_answer_ids, line 74
batch_return ==
    /\ pc = "batch_loop"
    /\ batch_i >= NumBatches(Len(prompt_ids), max_parallel)
    /\ pc' = "done"
    /\ outcome' = "returned"
    /\ UNCHANGED << entry, model, passes >>
    /\ UNCHANGED batchVars
    /\ UNCHANGED searchVars

Next ==
    \/ fg_next
    \/ fg_concat
    \/ fg_return
    \/ grs_assert
    \/ grs_base
    \/ grs_iter
    \/ grs_return
    \/ get_answer_ids
    \/ batch_start
    \/ batch_iter
    \/ batch_return

Spec == Init /\ [][Next]_vars

\* ------------------------------------------------ vocabulary of the claims
SearchEntry == entry \in { "forward_generate", "get_reachable_set" }

\* the question of the k-th call of get_reachable_set
CallQuestion(k) == IF entry = "forward_generate" THEN unique_states[k].ids ELSE x_0

Candidates == 0..(vocab_size - 1)

Evaluated(q) == { c \in Candidates : <<c>> \o q \in DOMAIN model }

\* { top1([c] + q) : 0 <= c < vocab_size }
Predicted(q) == { model[<<c>> \o q] : c \in Evaluated(q) }

Producers(a, q) == { c \in Evaluated(q) : model[<<c>> \o q] = a }

\* the least candidate prompt id that produces a
First(a, q) == CHOOSE c \in Producers(a, q) : \A d \in Producers(a, q) : c <= d

Distinct(df) == \A r, s \in 1..Len(df) : df[r].answer_ids = df[s].answer_ids => r = s

IsPrefix(s, t) == Len(s) <= Len(t) /\ SubSeq(t, 1, Len(s)) = s

RECURSIVE Flatten(_)
Flatten(ss) == IF Len(ss) = 0 THEN <<>> ELSE Head(ss) \o Flatten(Tail(ss))

\* the forward passes of one successful get_reachable_set call on q
PassesFor(q) == << <<q>> >> \o [c \in 1..vocab_size |-> << <<c - 1>> \o q >>]

PassesPerCall == vocab_size + 1

\* a table has just been returned by get_reachable_set
JustReturned ==
    /\ SearchEntry
    /\ pc = "fg_concat" \/ (entry = "get_reachable_set" /\ pc = "done")

\* ------------------------------------------------------------------- C1
\* C1: every table get_reachable_set returns for a question q has, as its
\* set of answer_ids, exactly { top1([c] + q) : 0 <= c < vocab_size }: every
\* candidate was evaluated, every row's id is predicted under some one-token
\* prompt, no predicted id is missing, and there is one row per distinct id.
C1_ReachableSetExact ==
    SearchEntry =>
        \A k \in 1..Len(reachable_sets) :
            LET T == reachable_sets[k]
                q == CallQuestion(k)
            IN  /\ Evaluated(q) = Candidates
                /\ ColumnAnswerIds(T) = Predicted(q)
                /\ Len(T) = Cardinality(Predicted(q))

C1_Witness ==
    /\ entry = "get_reachable_set"
    /\ outcome = "returned"
    /\ vocab_size = 2
    /\ Len(reachable_sets[1]) = 2

\* ------------------------------------------------------------------- C2
\* C2: after every iteration of the scan the answer_ids accumulated so far
\* are pairwise distinct, and an iteration whose predicted id is already
\* recorded leaves the table unchanged.
C2_Iteration ==
    (pc = "grs_loop" /\ i' = i + 1) =>
        /\ Distinct(reachable_df')
        /\ model'[<<i>> \o x_0] \in ColumnAnswerIds(reachable_df)
              => reachable_df' = reachable_df

C2_DedupEveryIteration == [][C2_Iteration]_vars

C2_Witness ==
    /\ pc = "grs_loop"
    /\ i = 2
    /\ Len(reachable_df) = 1

\* ------------------------------------------------------------------- C3
\* C3: in the table being built and in every table returned, rows are in
\* strictly ascending order of the first candidate prompt id that produced
\* their answer id; rows are only appended at the end, never reordered.
OrderedByFirst(T, q) ==
    /\ \A r \in 1..Len(T) : Producers(T[r].answer_ids, q) # {}
    /\ \A r \in 1..(Len(T) - 1) :
          First(T[r].answer_ids, q) < First(T[r + 1].answer_ids, q)

C3_Order ==
    SearchEntry =>
        /\ \A k \in 1..Len(reachable_sets) :
              OrderedByFirst(reachable_sets[k], CallQuestion(k))
        /\ pc = "grs_loop" => OrderedByFirst(reachable_df, x_0)

C3_AppendOnly ==
    (pc = "grs_loop" /\ pc' = "grs_loop") => IsPrefix(reachable_df, reachable_df')

C3_RowsInDiscoveryOrder == [](C3_Order) /\ [][C3_AppendOnly]_vars

C3_Witness ==
    /\ JustReturned
    /\ Len(reachable_df) = 2
    /\ First(reachable_df[1].answer_ids, x_0) = 0
    /\ First(reachable_df[2].answer_ids, x_0) = 1

\* ------------------------------------------------------------------- C4
\* C4: in every returned table base_correct is true exactly for the row
\* whose answer id is the model's top-1 on the question alone: one such row
\* if that id is predicted under some one-token prompt, none otherwise.
BaseCorrectRows(T) == { r \in 1..Len(T) : T[r].base_correct }

C4_BaseCorrect ==
    SearchEntry =>
        \A k \in 1..Len(reachable_sets) :
            LET T == reachable_sets[k]
                q == CallQuestion(k)
            IN  /\ q \in DOMAIN model
                /\ \A r \in 1..Len(T) : T[r].base_correct = (T[r].answer_ids = model[q])
                /\ Cardinality(BaseCorrectRows(T)) =
                      IF model[q] \in Predicted(q) THEN 1 ELSE 0

C4_Witness ==
    /\ JustReturned
    /\ Len(reachable_df) = 2
    /\ reachable_df[2].base_correct
    /\ ~reachable_df[1].base_correct

\* ------------------------------------------------------------------- C5
\* C5: with max_prompt_tokens other than 1 get_reachable_set fails with the
\* not-implemented condition before any forward pass and returns no table;
\* with max_prompt_tokens = 1 that failure never occurs.
C5_NotImplemented ==
    SearchEntry =>
        /\ max_prompt_tokens # 1 =>
              /\ passes = <<>>
              /\ reachable_sets = <<>>
              /\ pc \notin { "grs_base", "grs_loop", "fg_concat" }
              /\ (entry = "get_reachable_set" /\ pc # "grs_assert")
                    => (pc = "failed" /\ outcome = "NotImplemented")
              /\ (entry = "forward_generate" /\ pc = "failed"
                    /\ unique_states[row + 1].type = "list")
                    => outcome = "NotImplemented"
        /\ max_prompt_tokens = 1 => outcome # "NotImplemented"

C5_Witness ==
    /\ entry = "get_reachable_set"
    /\ max_prompt_tokens = DefaultMaxPromptTokens
    /\ outcome = "NotImplemented"
    /\ passes = <<>>

\* ------------------------------------------------------------------- C6
\* C6: forward_generate returns the concatenation, in input order, of the
\* tables get_reachable_set returned for its questions, one table per input
\* row (the same question twice gives the same table twice), with no
\* deduplication across questions.
C6_Concatenation ==
    (entry = "forward_generate" /\ outcome = "returned") =>
        /\ max_prompt_tokens = 1 \/ Len(unique_states) = 0
        /\ Len(reachable_sets) = Len(unique_states)
        /\ \A k \in 1..Len(reachable_sets) : \A r \in 1..Len(reachable_sets[k]) :
              reachable_sets[k][r].question_ids = unique_states[k].ids
        /\ \A j, k \in 1..Len(reachable_sets) :
              unique_states[j] = unique_states[k] => reachable_sets[j] = reachable_sets[k]
        /\ fg_reachable_df = Flatten(reachable_sets)
        /\ Len(fg_reachable_df) =
              Len(Flatten([k \in 1..Len(reachable_sets) |->
                              [r \in 1..Len(reachable_sets[k]) |-> k]]))

C6_Witness ==
    /\ entry = "forward_generate"
    /\ outcome = "returned"
    /\ Len(unique_states) = 2
    /\ unique_states[1] # unique_states[2]
    /\ Len(reachable_sets[1]) = 2
    /\ Len(fg_reachable_df) = 3
    /\ fg_reachable_df[3].answer_ids = fg_reachable_df[1].answer_ids

\* ------------------------------------------------------------------- C7
\* C7: _get_answer_ids with P prompt rows and Q question rows returns, in one
\* forward pass, P predictions with row r = top1(prompt_r + question) when
\* Q = 1 and P > 1, and row r = top1(prompt_r + question_r) when Q = P; in
\* every other case it fails with the batch-mismatch condition before the
\* forward pass.
C7_GetAnswerIds ==
    (entry = "_get_answer_ids" /\ pc # "gai") =>
        LET P == Len(prompt_ids)
            Q == Len(question_ids)
        IN  IF Q = 1 /\ P > 1
            THEN /\ outcome = "returned"
                 /\ Len(answer_ids) = P
                 /\ passes = << [r \in 1..P |-> prompt_ids[r] \o question_ids[1]] >>
                 /\ \A r \in 1..P : answer_ids[r] = model[prompt_ids[r] \o question_ids[1]]
            ELSE IF Q = P
            THEN /\ outcome = "returned"
                 /\ Len(answer_ids) = P
                 /\ passes = << [r \in 1..P |-> prompt_ids[r] \o question_ids[r]] >>
                 /\ \A r \in 1..P : answer_ids[r] = model[prompt_ids[r] \o question_ids[r]]
            ELSE /\ outcome = "BatchMismatch"
                 /\ passes = <<>>
                 /\ answer_ids = <<>>

C7_Witness ==
    /\ entry = "_get_answer_ids"
    /\ outcome = "returned"
    /\ Len(question_ids) = 1
    /\ Len(prompt_ids) = 3
    /\ answer_ids[1] # answer_ids[2]

\* ------------------------------------------------------------------- C8
\* C8: _batch_get_answer_ids with P >= 1 prompt rows, one question and
\* max_parallel >= 1 works through the chunks [k*max_parallel,
\* min((k+1)*max_parallel, P)): contiguous, of size 1..max_parallel, covering
\* 0..P-1 in order; it never fails, and output row r is the prediction for
\* prompt row r, as one _get_answer_ids call over the whole batch gives.
SingleCall(p, q) ==
    [r \in 1..Len(p) |-> model[InputIds(p, BroadcastQuestion(p, q))[r]]]

C8_Chunks ==
    LET P == Len(prompt_ids) IN
    /\ \A k \in 1..Len(chunks) :
          /\ chunks[k][1] = (k - 1) * max_parallel
          /\ chunks[k][2] = Min(k * max_parallel, P)
          /\ chunks[k][2] - chunks[k][1] \in 1..max_parallel
          /\ chunks[k][1] = IF k = 1 THEN 0 ELSE chunks[k - 1][2]
          /\ passes[k] = [r \in 1..(chunks[k][2] - chunks[k][1]) |->
                             prompt_ids[chunks[k][1] + r] \o question_ids[1]]
    /\ Len(passes) = Len(chunks)

C8_BatchedEqualsSingle ==
    (entry = "_batch_get_answer_ids" /\ Len(question_ids) = 1 /\ Len(prompt_ids) >= 1) =>
        LET P == Len(prompt_ids) IN
        /\ outcome # "BatchMismatch"
        /\ C8_Chunks
        /\ pc = "done" =>
              /\ Len(chunks) >= 1
              /\ chunks[Len(chunks)][2] = P
              /\ Len(answer_ids) = P
              /\ \A r \in 1..P : prompt_ids[r] \o question_ids[1] \in DOMAIN model
              /\ answer_ids = SingleCall(prompt_ids, question_ids)

C8_Witness ==
    /\ entry = "_batch_get_answer_ids"
    /\ outcome = "returned"
    /\ Len(question_ids) = 1
    /\ Len(prompt_ids) = 3
    /\ max_parallel = 2
    /\ chunks = << <<0, 2>>, <<2, 3>> >>
    /\ answer_ids[3] = 1

\* ------------------------------------------------------------------- C9
\* C9: each successful get_reachable_set call makes exactly vocab_size + 1
\* forward passes: the question alone first, then [c] + question for
\* c = 0, 1, ..., vocab_size - 1 in ascending order, once each, duplicates
\* included; the scan ends after the last candidate.
C9_ForwardPasses ==
    SearchEntry =>
        /\ \A k \in 1..Len(reachable_sets) :
              /\ Len(passes) >= k * PassesPerCall
              /\ SubSeq(passes, (k - 1) * PassesPerCall + 1, k * PassesPerCall)
                    = PassesFor(CallQuestion(k))
        /\ pc \in { "fg_concat", "fg_loop", "done" }
              => Len(passes) = Len(reachable_sets) * PassesPerCall
        /\ JustReturned => i = vocab_size

C9_Witness ==
    /\ entry = "get_reachable_set"
    /\ outcome = "returned"
    /\ vocab_size = 2
    /\ Len(reachable_sets[1]) = 1
    /\ Len(passes) = 3

\* ------------------------------------------------------------------ C10
\* C10: in forward_generate, if the k-th question_ids is the first that is not
\* a list, the run fails with the type-assertion condition with no forward
\* pass made for row k, after the passes of rows 1..k-1; no aggregate table
\* is returned and rows k+1.. are never processed.
NonLists == { k \in 1..Len(unique_states) : unique_states[k].type # "list" }

FirstNonList == CHOOSE k \in NonLists : \A j \in NonLists : k <= j

====
